---------------------------- MODULE Spec2Model ----------------------------
(***************************************************************************)
(* Model of the row-reduction puzzle engine of src/matrix.py: the Matrix   *)
(* class (canonicalization, solved detection, update), generate_matrix    *)
(* and find_gods_number, with the callers in src/main.py and              *)
(* src/app/app.py.                                                         *)
(*                                                                         *)
(* Numbers.  A Python number is a record [t, n, d]: t is "int" or "float"  *)
(* and the value is the rational n/d in lowest terms (d = 1 for an int).   *)
(* Float arithmetic is modelled exactly; the only places where the binary  *)
(* representation decides the outcome are exact decimal ties in            *)
(* round(x, 2), which are a free choice (parameter up), and the finite     *)
(* range of a float, FloatMax.                                             *)
(***************************************************************************)
EXTENDS Integers, Sequences, FiniteSets, TLC

(***************************************************************************)
(* Bounds of the model.                                                    *)
(***************************************************************************)
\* Largest finite float magnitude (sys.float_info.max), scaled to the range
\* of numbers the model explores; Python ints are unbounded and may exceed it.
FloatMax == 150
\* Number of Matrix.update calls the player makes in one behaviour.
MaxCalls == 2
\* Number of states of the global random generator.
RngStates == 101
\* Number of generation calls in one behaviour.
MaxGen == 1

\* size = 3 (src/matrix.py:27)
size == 3

Rows == 1..size

(***************************************************************************)
(* Python numbers                                                          *)
(***************************************************************************)
Abs(x) == IF x < 0 THEN -x ELSE x

RECURSIVE Gcd(_, _)
Gcd(a, b) == IF b = 0 THEN a ELSE Gcd(b, a % b)

\* A Python int.
PyInt(n) == [t |-> "int", n |-> n, d |-> 1]

\* A Python float of value n/d (d > 0), kept in lowest terms.
PyFloat(n, d) ==
    LET g == Gcd(Abs(n), d)
    IN  IF n = 0 THEN [t |-> "float", n |-> 0, d |-> 1]
        ELSE [t |-> "float", n |-> n \div g, d |-> d \div g]

\* float overflow to inf (and nan derived from it): absorbing in arithmetic.
NonFinite == [t |-> "nonfinite", n |-> 0, d |-> 1]

\* A raised exception, as a value that propagates through evaluation.
Raise(exc) == [t |-> "error", exc |-> exc]

IsError(v) == v.t = "error"
IsNumber(v) == v.t \in {"int", "float", "nonfinite"}
IsFinite(v) == v.t \in {"int", "float"}

\* Mathematical equality of two finite numbers (Python ==: 1.0 == 1).
NumEq(a, b) == a.n * b.d = b.n * a.d

\* float(x) for an int or float operand: OverflowError past the float range.
ToFloat(a) ==
    IF a.t = "int"
    THEN IF Abs(a.n) > FloatMax
         THEN Raise("OverflowError")
         ELSE PyFloat(a.n, 1)
    ELSE a

\* A float result: inf once its magnitude leaves the float range.
FloatResult(n, d) ==
    IF Abs(n) > FloatMax * d THEN NonFinite ELSE PyFloat(n, d)

\* fa + fb, fa - fb, fa * fb on the operands converted to float.
FloatArith(op, fa, fb) ==
    IF IsError(fa) THEN fa
    ELSE IF IsError(fb) THEN fb
    ELSE IF fa.t = "nonfinite" \/ fb.t = "nonfinite" THEN NonFinite
    ELSE CASE op = "add" -> FloatResult(fa.n * fb.d + fb.n * fa.d, fa.d * fb.d)
           [] op = "sub" -> FloatResult(fa.n * fb.d - fb.n * fa.d, fa.d * fb.d)
           [] op = "mul" -> FloatResult(fa.n * fb.n, fa.d * fb.d)

\* a + b, a - b, a * b on Python numbers.
PyArith(op, a, b) ==
    IF a.t = "int" /\ b.t = "int"
    THEN CASE op = "add" -> PyInt(a.n + b.n)
           [] op = "sub" -> PyInt(a.n - b.n)
           [] op = "mul" -> PyInt(a.n * b.n)
    ELSE FloatArith(op, ToFloat(a), ToFloat(b))

\* fa / fb on the operands converted to float.
FloatDiv(fa, fb) ==
    IF IsError(fa) THEN fa
    ELSE IF IsError(fb) THEN fb
    ELSE IF fb.t = "float" /\ fb.n = 0 THEN Raise("ZeroDivisionError")
    ELSE IF fa.t = "nonfinite" \/ fb.t = "nonfinite" THEN NonFinite
    ELSE IF fb.n < 0 THEN FloatResult(-(fa.n * fb.d), fa.d * (-fb.n))
    ELSE FloatResult(fa.n * fb.d, fa.d * fb.n)

\* a / b (true division) on Python numbers.
PyTrueDiv(a, b) ==
    IF a.t = "int" /\ b.t = "int"
    THEN IF b.n = 0 THEN Raise("ZeroDivisionError")
         ELSE IF Abs(a.n) > FloatMax * Abs(b.n) THEN Raise("OverflowError")
         ELSE IF b.n < 0 THEN PyFloat(-a.n, -b.n) ELSE PyFloat(a.n, b.n)
    ELSE FloatDiv(ToFloat(a), ToFloat(b))

\* floor(n / d) for d # 0.
FloorQuot(n, d) == IF d < 0 THEN (-n) \div (-d) ELSE n \div d

\* fa // fb on the operands converted to float: the floor of the quotient,
\* as a float.
FloatFloorDiv(fa, fb) ==
    IF IsError(fa) THEN fa
    ELSE IF IsError(fb) THEN fb
    ELSE IF fb.t = "float" /\ fb.n = 0 THEN Raise("ZeroDivisionError")
    ELSE IF fa.t = "nonfinite" \/ fb.t = "nonfinite" THEN NonFinite
    ELSE FloatResult(FloorQuot(fa.n * fb.d, fa.d * fb.n), 1)

\* a // b (floor division) on Python numbers.
PyFloorDiv(a, b) ==
    IF a.t = "int" /\ b.t = "int"
    THEN IF b.n = 0 THEN Raise("ZeroDivisionError")
         ELSE PyInt(FloorQuot(a.n, b.n))
    ELSE FloatFloorDiv(ToFloat(a), ToFloat(b))

\* -a on a Python number.
PyNeg(a) ==
    IF a.t = "nonfinite" THEN NonFinite ELSE [a EXCEPT !.n = -a.n]

(***************************************************************************)
(* Matrix._clean_number (src/matrix.py:133-143)                            *)
(***************************************************************************)
\* x.is_integer() on a float.
is_integer(x) == x.d = 1

\* An exact decimal tie of round(x, 2): the third decimal is exactly 5.
IsTie(x) == x.t = "float" /\ 2 * ((100 * x.n) % x.d) = x.d

\* round(x, 2) on a float.  At an exact decimal tie the result depends on
\* the binary representation of x: up chooses the direction.
round2(x, up) ==
    LET q == (100 * x.n) \div x.d
        r == (100 * x.n) % x.d
        h == IF 2 * r > x.d \/ (2 * r = x.d /\ up) THEN q + 1 ELSE q
    IN  PyFloat(h, 100)

DigitChar == <<"0", "1", "2", "3", "4", "5", "6", "7", "8", "9">>

DigitOf(c) == CHOOSE k \in 0..9 : DigitChar[k + 1] = c

RECURSIVE IntDigits(_)
IntDigits(k) ==
    IF k < 10 THEN <<DigitChar[k + 1]>>
    ELSE IntDigits(k \div 10) \o <<DigitChar[(k % 10) + 1]>>

\* f"{x:.2f}" as a sequence of characters, for x with at most 2 decimals.
Format2f(x) ==
    LET h == (100 * x.n) \div x.d
        a == Abs(h)
    IN  (IF h < 0 THEN <<"-">> ELSE <<>>)
        \o IntDigits(a \div 100)
        \o <<".", DigitChar[((a % 100) \div 10) + 1], DigitChar[(a % 10) + 1]>>

\* s.rstrip(c)
RECURSIVE rstrip(_, _)
rstrip(s, c) ==
    IF Len(s) > 0 /\ s[Len(s)] = c
    THEN rstrip(SubSeq(s, 1, Len(s) - 1), c)
    ELSE s

RECURSIVE DigitsValue(_)
DigitsValue(s) ==
    IF Len(s) = 0 THEN 0
    ELSE 10 * DigitsValue(SubSeq(s, 1, Len(s) - 1)) + DigitOf(s[Len(s)])

RECURSIVE Pow10(_)
Pow10(k) == IF k = 0 THEN 1 ELSE 10 * Pow10(k - 1)

\* The position of the decimal point of body, Len(body) + 1 without one.
DotIndex(body) ==
    IF \E i \in 1..Len(body) : body[i] = "."
    THEN CHOOSE i \in 1..Len(body) : body[i] = "."
    ELSE Len(body) + 1

\* The float of sign sgn with integer digits ip and fraction digits fp.
DecimalValue(sgn, ip, fp) ==
    PyFloat(sgn * (DigitsValue(ip) * Pow10(Len(fp)) + DigitsValue(fp)), Pow10(Len(fp)))

\* float(body) for an unsigned decimal string with its point at dot.
ParseDecimal(sgn, body, dot) ==
    DecimalValue(sgn, SubSeq(body, 1, dot - 1), SubSeq(body, dot + 1, Len(body)))

\* float(s) for a decimal string [-]digits[.digits]
ParseFloat(s) ==
    IF Len(s) > 0 /\ s[1] = "-"
    THEN ParseDecimal(-1, Tail(s), DotIndex(Tail(s)))
    ELSE ParseDecimal(1, s, DotIndex(s))

\* _clean_number without the is_integer branch of lines 139-140.
_clean_number_NoInt(num, up) ==
    IF num.t = "float"
    THEN ParseFloat(rstrip(rstrip(Format2f(round2(num, up)), "0"), "."))
    ELSE num

\* Matrix._clean_number(num)
_clean_number(num, up) ==
    IF num.t = "float"
    THEN IF is_integer(round2(num, up))
         THEN PyInt(round2(num, up).n)
         ELSE ParseFloat(rstrip(rstrip(Format2f(round2(num, up)), "0"), "."))
    ELSE num

\* Matrix._clean_row(row): up[j] is the tie direction of row[j].
_clean_row(row, up) == [j \in 1..Len(row) |-> _clean_number(row[j], up[j])]

\* The tie directions that can matter for a row: FALSE wherever no tie.
TieDirs(row) ==
    {u \in [1..Len(row) -> BOOLEAN] : \A j \in 1..Len(row) : u[j] => IsTie(row[j])}

(***************************************************************************)
(* Matrix (src/matrix.py:118-131)                                          *)
(***************************************************************************)
\* Matrix.__init__: the object state after construction.
Matrix(sz, vals, outs) ==
    [size |-> sz, values |-> vals, outputs |-> outs, moves_count |-> 0]

\* Tie directions for every coefficient cell of a matrix.
MatrixTieDirs(m) ==
    {u \in [Rows -> [Rows -> BOOLEAN]] :
        \A i \in Rows : u[i] \in TieDirs(m.values[i])}

\* The scan of is_rref comparing the stored cells without _clean_number.
RECURSIVE RrefScan_Raw(_, _, _, _)
RrefScan_Raw(m, up, i, j) ==
    IF i > m.size THEN TRUE
    ELSE IF j > m.size THEN RrefScan_Raw(m, up, i + 1, 1)
    ELSE LET cell == m.values[i][j]
         IN  IF i = j
             THEN IF ~(IsFinite(cell) /\ NumEq(cell, PyInt(1))) THEN FALSE
                  ELSE RrefScan_Raw(m, up, i, j + 1)
             ELSE IF ~(IsFinite(cell) /\ NumEq(cell, PyInt(0))) THEN FALSE
                  ELSE RrefScan_Raw(m, up, i, j + 1)

\* Matrix.is_rref(): the scan of lines 155-165, returning at the first cell
\* that differs from the identity.
RECURSIVE RrefScan(_, _, _, _)
RrefScan(m, up, i, j) ==
    IF i > m.size THEN TRUE
    ELSE IF j > m.size THEN RrefScan(m, up, i + 1, 1)
    ELSE LET cell == _clean_number(m.values[i][j], up[i][j])
         IN  IF i = j
             THEN IF ~(IsFinite(cell) /\ NumEq(cell, PyInt(1))) THEN FALSE
                  ELSE RrefScan(m, up, i, j + 1)
             ELSE IF ~(IsFinite(cell) /\ NumEq(cell, PyInt(0))) THEN FALSE
                  ELSE RrefScan(m, up, i, j + 1)

is_rref(m, up) == RrefScan(m, up, 1, 1)

(***************************************************************************)
(* Transformation texts and their evaluation (src/matrix.py:175-279)       *)
(*                                                                         *)
(* A text is [neq, lhs, rhs]: neq is the number of '=' characters, lhs    *)
(* the characters left of the '=' (stripped), rhs the expression Python's  *)
(* eval parses right of it: [op |-> "name", id], [op |-> "num", v],       *)
(* [op |-> "neg", a], [op |-> "add"|"sub"|"mul"|"div"|"floordiv", l, r]   *)
(* (floordiv is Python's //, which eval accepts like every operator), or   *)
(* [op |-> "invalid"] for a right side that is not a Python expression.    *)
(***************************************************************************)
UpperChar(c) == IF c = "r" THEN "R" ELSE IF c = "x" THEN "X" ELSE c

\* str.upper() on a sequence of characters.
Upper(s) == [i \in 1..Len(s) |-> UpperChar(s[i])]

\* transformation.upper() applied to the expression: its identifiers.
RECURSIVE UpperExpr(_)
UpperExpr(e) ==
    CASE e.op = "name" -> [e EXCEPT !.id = Upper(e.id)]
      [] e.op \in {"num", "invalid"} -> e
      [] e.op = "neg"  -> [e EXCEPT !.a = UpperExpr(e.a)]
      [] OTHER         -> [e EXCEPT !.l = UpperExpr(e.l), !.r = UpperExpr(e.r)]

IsDigits(s) == Len(s) > 0 /\ \A i \in 1..Len(s) : s[i] \in {DigitChar[k] : k \in 1..10}

\* s.lstrip(c)
RECURSIVE lstrip(_, _)
lstrip(s, c) == IF Len(s) > 0 /\ s[1] = c THEN lstrip(Tail(s), c) ELSE s

\* The digits of an int literal: digits, with single underscores between them.
IsIntBody(b) ==
    /\ Len(b) > 0
    /\ \A i \in 1..Len(b) : b[i] = "_" \/ IsDigits(<<b[i]>>)
    /\ b[1] # "_"
    /\ b[Len(b)] # "_"
    /\ \A i \in 1..(Len(b) - 1) : ~(b[i] = "_" /\ b[i + 1] = "_")

NotUnderscore(c) == c # "_"

\* The value of sign sgn and digits b, or ok = FALSE for a ValueError.
ParseDigits(sgn, b) ==
    IF IsIntBody(b)
    THEN [ok |-> TRUE, v |-> sgn * DigitsValue(SelectSeq(b, NotUnderscore))]
    ELSE [ok |-> FALSE, v |-> 0]

\* int(b) for b without surrounding whitespace: an optional sign, then digits.
ParseSigned(b) ==
    IF Len(b) > 0 /\ b[1] = "-" THEN ParseDigits(-1, Tail(b))
    ELSE IF Len(b) > 0 /\ b[1] = "+" THEN ParseDigits(1, Tail(b))
    ELSE ParseDigits(1, b)

\* int(s): [ok |-> TRUE, v |-> value], or ok = FALSE for a ValueError.
\* int accepts surrounding whitespace, a sign and underscores between digits.
ParseInt(s) == ParseSigned(lstrip(rstrip(s, " "), " "))

\* f'R{i}'
RowKey(i) == <<"R">> \o IntDigits(i)

\* RowOp(data)
RowOp(data) == [t |-> "row", data |-> data]

IsRow(v) == v.t = "row"

\* [f(x) for x in data]: the new list, or the first exception raised.
ListComp(cells) ==
    IF \E j \in 1..Len(cells) : IsError(cells[j])
    THEN cells[CHOOSE j \in 1..Len(cells) :
                  IsError(cells[j]) /\ \A k \in 1..(j - 1) : ~IsError(cells[k])]
    ELSE RowOp(cells)

\* EvalMul with __mul__ multiplying two rows element by element.
EvalMul_RowByRow(a, b) ==
    IF IsRow(a)
    THEN IF IsNumber(b)
         THEN ListComp([j \in 1..Len(a.data) |-> PyArith("mul", a.data[j], b)])
         ELSE ListComp([j \in 1..Len(a.data) |->
                           PyArith("mul", a.data[j], b.data[j])])
    ELSE IF IsRow(b)
    THEN ListComp([j \in 1..Len(b.data) |-> PyArith("mul", b.data[j], a)])
    ELSE PyArith("mul", a, b)

\* a * b with RowOp.__mul__ / __rmul__ (lines 211-219)
EvalMul(a, b) ==
    IF IsRow(a)
    THEN IF IsNumber(b)
         THEN ListComp([j \in 1..Len(a.data) |-> PyArith("mul", a.data[j], b)])
         ELSE Raise("TypeError")
    ELSE IF IsRow(b)
    THEN ListComp([j \in 1..Len(b.data) |-> PyArith("mul", b.data[j], a)])
    ELSE PyArith("mul", a, b)

\* a + b, a - b with RowOp.__add__ / __radd__ / __sub__ / __rsub__ (lines 221-239)
EvalAddSub(op, a, b) ==
    IF IsRow(a)
    THEN IF IsRow(b)
         THEN ListComp([j \in 1..Len(a.data) |-> PyArith(op, a.data[j], b.data[j])])
         ELSE Raise("TypeError")
    ELSE IF IsRow(b)
    THEN Raise("TypeError")
    ELSE PyArith(op, a, b)

\* a / b with RowOp.__truediv__ / __rtruediv__ (lines 241-247)
EvalDiv(a, b) ==
    IF IsRow(a)
    THEN IF IsNumber(b)
         THEN ListComp([j \in 1..Len(a.data) |-> PyTrueDiv(a.data[j], b)])
         ELSE Raise("TypeError")
    ELSE IF IsRow(b)
    THEN Raise("TypeError")
    ELSE PyTrueDiv(a, b)

\* a // b: RowOp defines neither __floordiv__ nor __rfloordiv__.
EvalFloorDiv(a, b) ==
    IF IsRow(a) \/ IsRow(b) THEN Raise("TypeError") ELSE PyFloorDiv(a, b)

\* -a: RowOp defines no __neg__.
EvalNeg(a) == IF IsRow(a) THEN Raise("TypeError") ELSE PyNeg(a)

\* A unary minus applied to the value of its operand.
EvalUnary(a) == IF IsError(a) THEN a ELSE EvalNeg(a)

\* A binary operator applied to the values of its operands: the left
\* operand's exception propagates first.
EvalBinary(op, l, r) ==
    IF IsError(l) THEN l
    ELSE IF IsError(r) THEN r
    ELSE CASE op = "mul" -> EvalMul(l, r)
           [] op = "div" -> EvalDiv(l, r)
           [] op = "floordiv" -> EvalFloorDiv(l, r)
           [] OTHER      -> EvalAddSub(op, l, r)

\* eval(operation_str, {"__builtins__": {}}, ns): operands left to right,
\* the first exception propagates.
RECURSIVE Eval(_, _)
Eval(e, ns) ==
    CASE e.op = "name" ->
            IF e.id \in DOMAIN ns THEN ns[e.id] ELSE Raise("NameError")
      [] e.op = "num" -> e.v
      [] e.op = "invalid" -> Raise("SyntaxError")
      [] e.op = "neg" -> EvalUnary(Eval(e.a, ns))
      [] OTHER -> EvalBinary(e.op, Eval(e.l, ns), Eval(e.r, ns))

\* coeff_namespace (lines 250-252)
coeff_namespace(m) ==
    [key \in {RowKey(i) : i \in 1..m.size} |->
        RowOp(m.values[CHOOSE i \in 1..m.size : RowKey(i) = key])]

\* output_namespace (lines 267-269)
output_namespace(m) ==
    [key \in {RowKey(i) : i \in 1..m.size} |->
        m.outputs[CHOOSE i \in 1..m.size : RowKey(i) = key]]

\* A result of eval that holds inf or nan.
HasNonFinite(v) ==
    \/ v.t = "nonfinite"
    \/ IsRow(v) /\ \E j \in 1..Len(v.data) : v.data[j].t = "nonfinite"

\* The record update hands back: the object state after the call, the line
\* it printed ("" when the transformation was applied) and which of the two
\* assignments (lines 258 and 273) it executed.
Returned(m, msg, wrote_values, wrote_outputs) ==
    [m |-> m, printed |-> msg,
     wrote_values |-> wrote_values, wrote_outputs |-> wrote_outputs]

\* OutputStage with line 279 moved before the evaluation of line 272.
OutputStage_CountFirst(m, target_row, result_output, upO) ==
    IF IsError(result_output)
    THEN Returned([m EXCEPT !.moves_count = m.moves_count + 1],
                  "Error evaluating transformation for outputs", TRUE, FALSE)
    ELSE Returned([m EXCEPT !.outputs[target_row] = _clean_number(result_output, upO),
                            !.moves_count = m.moves_count + 1],
                  "", TRUE, TRUE)

\* Lines 266-279 on result_output, the value or exception of the
\* scalar-domain eval of line 272: on success line 273 replaces
\* outputs[target_row] and line 279 counts the move.
OutputStage(m, target_row, result_output, upO) ==
    IF IsError(result_output)
    THEN Returned(m, "Error evaluating transformation for outputs", TRUE, FALSE)
    ELSE Returned([m EXCEPT !.outputs[target_row] = _clean_number(result_output, upO),
                            !.moves_count = m.moves_count + 1],
                  "", TRUE, TRUE)

\* StoreRow writing the row after the target: the 1-based index of the text
\* used as a 0-based index.
StoreRow_Shifted(m, target_row, data, upR) ==
    [m EXCEPT !.values[IF target_row < m.size THEN target_row + 1 ELSE target_row] =
                  _clean_row(data, upR)]

\* Line 258: self.values[target_row] = self._clean_row(result.data)
StoreRow(m, target_row, data, upR) ==
    [m EXCEPT !.values[target_row] = _clean_row(data, upR)]

\* RowStage with line 258 storing result.data without _clean_row.
RowStage_Raw(m, target_row, operation_str, result, upR, upO) ==
    IF IsError(result)
    THEN Returned(m, "Error evaluating transformation", FALSE, FALSE)
    ELSE IF ~IsRow(result)
    THEN Returned(m, "Transformation result is not a valid row", FALSE, FALSE)
    ELSE OutputStage([m EXCEPT !.values[target_row] = result.data],
                     target_row,
                     Eval(operation_str, output_namespace(m)), upO)

\* Lines 254-279 on result, the value or exception of the row-domain eval
\* of line 256: on success line 258 replaces values[target_row] and the
\* scalar-domain evaluation follows.
RowStage(m, target_row, operation_str, result, upR, upO) ==
    IF IsError(result)
    THEN Returned(m, "Error evaluating transformation", FALSE, FALSE)
    ELSE IF ~IsRow(result)
    THEN Returned(m, "Transformation result is not a valid row", FALSE, FALSE)
    ELSE OutputStage(StoreRow(m, target_row, result.data, upR),
                     target_row,
                     Eval(operation_str, output_namespace(m)), upO)

\* Lines 199-279 on parsed, the outcome of int(target[1:]).
UpdateRow(m, parsed, operation_str, upR, upO) ==
    IF ~parsed.ok
    THEN Returned(m, "Invalid row number", FALSE, FALSE)
    ELSE IF parsed.v < 1 \/ parsed.v > m.size
    THEN Returned(m, "Row index out of bounds", FALSE, FALSE)
    ELSE RowStage(m, parsed.v, operation_str,
                  Eval(operation_str, coeff_namespace(m)), upR, upO)

\* Lines 189-279 on the upper-cased target and operation_str.
UpdateTarget(m, target, operation_str, upR, upO) ==
    IF ~(Len(target) > 0 /\ target[1] = "R")
    THEN Returned(m, "Invalid row reference", FALSE, FALSE)
    ELSE UpdateRow(m, ParseInt(Tail(target)), operation_str, upR, upO)

\* Matrix.update(transformation).  upR and upO are the tie directions of
\* the row and output results.
update(m, transformation, upR, upO) ==
    IF transformation.neq # 1
    THEN Returned(m, "Invalid transformation format", FALSE, FALSE)
    ELSE UpdateTarget(m, Upper(transformation.lhs),
                      UpperExpr(transformation.rhs), upR, upO)

\* The tie directions the results r (row domain) and o (scalar domain) of a
\* call of update can meet.
ResultTieDirs(r, o) ==
    [row : IF IsRow(r) THEN TieDirs(r.data) ELSE {[j \in Rows |-> FALSE]},
     out : IF IsNumber(o) /\ IsTie(o) THEN BOOLEAN ELSE {FALSE}]

\* The tie directions a call of update can meet.
UpdateTieDirs(m, transformation) ==
    ResultTieDirs(Eval(UpperExpr(transformation.rhs), coeff_namespace(m)),
                  Eval(UpperExpr(transformation.rhs), output_namespace(m)))

\* The call stays inside the explored range: no result is inf or nan.
UpdateFinite(m, transformation) ==
    /\ ~HasNonFinite(Eval(UpperExpr(transformation.rhs), coeff_namespace(m)))
    /\ ~HasNonFinite(Eval(UpperExpr(transformation.rhs), output_namespace(m)))

(***************************************************************************)
(* The random module and generate_matrix (src/matrix.py:5-61)              *)
(*                                                                         *)
(* The module-level generator of `random` is a hidden global state; every  *)
(* draw is a function of the state and advances it.  The model's generator *)
(* has RngStates states.                                                   *)
(***************************************************************************)

RngNext(x) == (x * 31 + 17) % RngStates

\* The state after k draws.
RECURSIVE RngAt(_, _)
RngAt(x, k) == IF k = 0 THEN x ELSE RngAt(RngNext(x), k - 1)

\* Most draws one call of generate_matrix makes: the cells, two per row for
\* the zeros, the solution.
MaxDraws == size * size + 2 * size + size

\* The words the next MaxDraws draws deliver, from global state x.
RngStream(x) == [k \in 1..MaxDraws |-> RngAt(x, k)]

\* random.randint(a, b) delivered from word w.
randint(w, a, b) == a + (w % (b - a + 1))

\* random.random() < 0.4 delivered from word w.
RandomBelow04(w) == (w % 5) < 2

Min(a, b) == IF a < b THEN a ELSE b
Max(a, b) == IF a > b THEN a ELSE b

\* Lines 45-47: the zero pass of the moderate regime, from row i on, with k
\* draws consumed so far.
RECURSIVE ZeroPass(_, _, _, _)
ZeroPass(vals, rnd, i, k) ==
    IF i > size THEN [values |-> vals, k |-> k]
    ELSE IF RandomBelow04(rnd[k + 1])
         THEN ZeroPass([vals EXCEPT ![i][randint(rnd[k + 2], 0, size - 1) + 1] = 0],
                       rnd, i + 1, k + 2)
         ELSE ZeroPass(vals, rnd, i + 1, k + 1)

\* Number of cells drawn before cell (i, j) in the structured regime.
UpperIndex(i, j) == Cardinality({c \in Rows \X Rows :
                        c[1] <= c[2] /\ (c[1] < i \/ (c[1] = i /\ c[2] < j))})

\* Lines 32-50: the coefficients of the regime compressibility selects, and
\* the number k of draws consumed.
gen_values(compressibility, max_coeff, rnd) ==
    IF compressibility < 10
    THEN [values |-> [i \in Rows |-> [j \in Rows |->
                         IF j >= i
                         THEN randint(rnd[UpperIndex(i, j) + 1], 1, 3)
                         ELSE 0]],
          k |-> (size * (size + 1)) \div 2]
    ELSE IF compressibility < 50
    THEN ZeroPass([i \in Rows |-> [j \in Rows |->
                      randint(rnd[(i - 1) * size + j], 1, 6)]],
                  rnd, 1, size * size)
    ELSE [values |-> [i \in Rows |-> [j \in Rows |->
                         randint(rnd[(i - 1) * size + j], 1, max_coeff)]],
          k |-> size * size]

\* Line 53: the solution vector, after k draws.
gen_solution(max_coeff, rnd, k) ==
    [j \in Rows |-> randint(rnd[k + j], 1, max_coeff)]

\* sum(row[j] * s[j] for j in range(n))
RECURSIVE SumProd(_, _, _)
SumProd(row, s, n) ==
    IF n = 0 THEN 0 ELSE SumProd(row, s, n - 1) + row[n] * s[n]

\* Lines 55-59 with solution indexed by the row instead of the column.
gen_outputs_RowIndex(vals, solution) ==
    [i \in Rows |-> SumProd(vals[i], [j \in Rows |-> solution[i]], size)]

\* Lines 55-59: the augmented column.
gen_outputs(vals, solution) ==
    [i \in Rows |-> SumProd(vals[i], solution, size)]

\* generate_matrix(difficulty, compressibility) when the random module
\* delivers the words rnd: the Matrix returned, the local solution and the
\* number of draws consumed.
generate_matrix(difficulty0, compressibility0, rnd) ==
    LET difficulty == Max(0, Min(100, difficulty0))
        compressibility == Max(0, Min(100, compressibility0))
        max_coeff == 10 + difficulty
        gen == gen_values(compressibility, max_coeff, rnd)
        solution == gen_solution(max_coeff, rnd, gen.k)
        outputs == gen_outputs(gen.values, solution)
    IN  [matrix   |-> Matrix(size,
                             [i \in Rows |-> [j \in Rows |-> PyInt(gen.values[i][j])]],
                             [i \in Rows |-> PyInt(outputs[i])]),
         solution |-> solution,
         consumed |-> gen.k + size]

(***************************************************************************)
(* Transformation texts                                                    *)
(***************************************************************************)
Name(id) == [op |-> "name", id |-> id]
Lit(v) == [op |-> "num", v |-> v]
Neg(a) == [op |-> "neg", a |-> a]
Bin(op, l, r) == [op |-> op, l |-> l, r |-> r]
Text(lhs, rhs) == [neq |-> 1, lhs |-> lhs, rhs |-> rhs]

\* The expression a formatted number parses to: a leading '-' is a unary minus.
NumExpr(v) == IF v.n < 0 THEN Neg(Lit(PyNeg(v))) ELSE Lit(v)

(***************************************************************************)
(* find_gods_number (src/matrix.py:64-115)                                 *)
(***************************************************************************)
\* format_factor(f) (lines 75-80), as the literal its string parses to.
format_factor(f, up) ==
    LET rounded == IF f.t = "float" THEN round2(f, up) ELSE f
    IN  IF is_integer(rounded) THEN NumExpr(PyInt(rounded.n)) ELSE NumExpr(rounded)

\* Line 92: f"R{col + 1} = R{col + 1} * {format_factor(factor)}"
ScaleOp(c, factor, up) ==
    Text(RowKey(c), Bin("mul", Name(RowKey(c)), format_factor(factor, up)))

\* Lines 101 and 111:
\* f"R{row + 1} = R{row + 1} - {format_factor(factor)} * R{col + 1}"
EliminateOp(r, c, factor, up) ==
    Text(RowKey(r), Bin("sub", Name(RowKey(r)),
                        Bin("mul", format_factor(factor, up), Name(RowKey(c)))))

\* The loop position after [pc, col, row]: lines 87, 97, 106 and 107.
NextPos(p, c, r) ==
    IF p = "normalize"
    THEN IF c + 1 <= size THEN [pc |-> "eliminate", col |-> c, row |-> c + 1]
         ELSE IF size >= 2 THEN [pc |-> "back", col |-> size, row |-> size - 1]
         ELSE [pc |-> "returned", col |-> 0, row |-> 0]
    ELSE IF p = "eliminate"
    THEN IF r + 1 <= size THEN [pc |-> "eliminate", col |-> c, row |-> r + 1]
         ELSE [pc |-> "normalize", col |-> c + 1, row |-> 0]
    ELSE IF r - 1 >= 1 THEN [pc |-> "back", col |-> c, row |-> r - 1]
         ELSE IF c - 1 >= 2 THEN [pc |-> "back", col |-> c - 1, row |-> c - 2]
         ELSE [pc |-> "returned", col |-> 0, row |-> 0]

\* The objects of the heap: the caller's Matrix, the estimator's working
\* copy, and the fresh copy the returned operations are replayed on.
ObjIds == {"m1", "m2", "m3"}

NoMatrix == [size |-> 0, values |-> <<>>, outputs |-> <<>>, moves_count |-> 0]

\* Line 83 without the copies: work_matrix shares the caller's object.
NewWorkMatrix_Alias(caller) == caller

\* Line 83: work_matrix is a new object built from deep copies.
NewWorkMatrix(caller) == "m2"

(***************************************************************************)
(* State                                                                   *)
(***************************************************************************)
VARIABLES
    heap,           \* the Matrix objects: size, values, outputs, moves_count
    matrix,         \* the caller's Matrix (test in main.py): a reference
    work_matrix,    \* find_gods_number's work_matrix: a reference, or "None"
    printed,        \* the line the last call printed, "" if none
    solution,       \* generate_matrix's local solution vector
    accepted,       \* number of update calls that executed lines 258 and 273
    calls,          \* number of update calls made by the player
    pc,             \* control position: "play", or inside find_gods_number
    col, row,       \* find_gods_number's loop variables (1-based)
    operations,     \* find_gods_number's operations list
    next_op,        \* index of the next returned operation to replay
    ret,            \* the value the last call returned
    random_state,   \* the global state of the random module
    genlog,         \* the generate_matrix calls made: arguments and result
    arg             \* the argument of the last call of a pure function

vars == <<heap, matrix, work_matrix, printed, solution, accepted, calls, pc,
          col, row, operations, next_op, ret, random_state, genlog, arg>>

\* Values of the variables a specification does not use.
NoRet == [kind |-> "none"]

(***************************************************************************)
(* The game: a generated puzzle, the player's update calls, and            *)
(* find_gods_number with a replay of the operations it returns.            *)
(***************************************************************************)
Pad(s) == s \o [k \in 1..(MaxDraws - Len(s)) |-> 0]

\* The generation runs the game starts from: arguments and delivered words.
PlaySamples ==
    { [difficulty |-> 0, compressibility |-> 5,
       rnd |-> Pad(<<0, 0, 0, 0, 0, 0, 0, 0, 1>>)],
      [difficulty |-> 0, compressibility |-> 5,
       rnd |-> Pad(<<2, 0, 0, 0, 0, 0, 0, 0, 0>>)],
      [difficulty |-> 0, compressibility |-> 5,
       rnd |-> Pad(<<1, 0, 0, 0, 0, 0, 0, 1, 2>>)],
      [difficulty |-> 0, compressibility |-> 30,
       rnd |-> Pad(<<0, 0, 1, 0, 0, 0, 0, 1, 0, 0, 0, 2, 2, 0, 0, 0>>)] }

R1 == <<"R", "1">>
R2 == <<"R", "2">>
R3 == <<"R", "3">>

\* The texts the player enters.  The int literal 100 stands for an int
\* literal close to the float range (FloatMax).
Texts ==
    { Text(R1, Bin("div", Name(R1), Lit(PyInt(3)))),                \* R1 = R1 / 3
      Text(R1, Bin("mul", Name(R1), Lit(PyFloat(1, 2)))),           \* R1 = R1 * 0.5
      Text(<<"r", "1">>, Bin("mul", Name(<<"r", "1">>), Lit(PyInt(2)))), \* r1 = r1 * 2
      Text(R2, Bin("sub", Name(R2), Name(R3))),                     \* R2 = R2 - R3
      Text(R1, Bin("sub", Name(R1), Bin("mul", Lit(PyFloat(1, 2)), Name(R2)))),
                                                                    \* R1 = R1 - 0.5 * R2
      Text(R1, Name(R2)),                                           \* R1 = R2
      Text(R1, Bin("mul", Bin("mul", Name(R1), Lit(PyInt(100))), Lit(PyFloat(1, 2)))),
                                                                    \* R1 = R1 * 100 * 0.5
      Text(R1, Bin("mul", Name(R1), Name(R2))),                     \* R1 = R1 * R2
      Text(R1, Bin("div", Name(R1), Lit(PyInt(0)))),                \* R1 = R1 / 0
      Text(R1, Bin("add", Name(R1), Lit(PyInt(1)))),                \* R1 = R1 + 1
      Text(R1, Lit(PyInt(5))),                                      \* R1 = 5
      Text(R1, Neg(Name(R1))),                                      \* R1 = -R1
      Text(R2, Bin("add", Name(R2), Neg(Name(R1)))),                \* R2 = R2 + -(R1)
      Text(R1, Bin("div", Name(R1), Name(R2))),                     \* R1 = R1 / R2
      Text(R1, Bin("mul", Name(R1), Bin("floordiv", Lit(PyInt(4)), Lit(PyInt(2))))),
                                                                    \* R1 = R1 * (4 // 2)
      Text(<<"R", "+", "1">>, Bin("mul", Name(R1), Lit(PyInt(2)))), \* R+1 = R1 * 2
      Text(R2, Bin("add", Name(R2), Name(<<"R", "4">>))),           \* R2 = R2 + R4
      Text(R1, [op |-> "invalid"]),                                 \* R1 = R1 * abc)
      Text(<<"R", "9">>, Bin("mul", Name(R1), Lit(PyInt(2)))),      \* R9 = R1 * 2
      Text(<<"R", "x">>, Name(R1)),                                 \* Rx = R1
      Text(<<"1">>, Name(R1)),                                      \* 1 = R1
      [neq |-> 0, lhs |-> R1, rhs |-> Name(R1)],                    \* R1 R1
      [neq |-> 2, lhs |-> R1, rhs |-> Name(R1)] }                   \* R1 = R1 = R1

InitGame ==
    /\ \E sample \in PlaySamples :
          LET g == generate_matrix(sample.difficulty, sample.compressibility, sample.rnd)
          IN  /\ heap = [o \in ObjIds |-> IF o = "m1" THEN g.matrix ELSE NoMatrix]
              /\ solution = g.solution
    /\ matrix = "m1"
    /\ work_matrix = "None"
    /\ printed = ""
    /\ accepted = 0
    /\ calls = 0
    /\ pc = "play"
    /\ col = 0
    /\ row = 0
    /\ operations = <<>>
    /\ next_op = 0
    /\ ret = NoRet
    /\ random_state = 0
    /\ genlog = <<>>
    /\ arg = NoRet

\* The effect of obj.update(...) returning r: the object's new state and the
\* printed line.
UpdateEffect(obj, r) ==
    /\ heap' = [heap EXCEPT ![obj] = r.m]
    /\ printed' = r.printed

\* The number of accepted transformations after a call returning r.
Accepted(r) ==
    IF r.wrote_values /\ r.wrote_outputs THEN accepted + 1 ELSE accepted

\* main.py line 17 / app.py line 343: the player's update call.
UpdateCall(transformation) ==
    /\ pc = "play"
    /\ calls < MaxCalls
    /\ UpdateFinite(heap[matrix], transformation)
    /\ \E up \in UpdateTieDirs(heap[matrix], transformation) :
          /\ UpdateEffect(matrix,
                          update(heap[matrix], transformation, up.row, up.out))
          /\ accepted' =
                Accepted(update(heap[matrix], transformation, up.row, up.out))
    /\ calls' = calls + 1
    /\ ret' = NoRet
    /\ UNCHANGED <<matrix, work_matrix, solution, pc, col, row, operations,
                   next_op, random_state, genlog, arg>>

\* The tie directions round(x, 2) can meet on x.
TieSet(x) == IF IsTie(x) THEN BOOLEAN ELSE {FALSE}

\* work_matrix.update(op); operations.append(op)
EstApply(op) ==
    /\ UpdateFinite(heap[work_matrix], op)
    /\ \E up \in UpdateTieDirs(heap[work_matrix], op) :
          UpdateEffect(work_matrix, update(heap[work_matrix], op, up.row, up.out))
    /\ operations' = Append(operations, op)

EstSkip == UNCHANGED <<heap, printed, operations>>

EstAdvance ==
    LET p == NextPos(pc, col, row)
    IN  /\ pc' = p.pc
        /\ col' = p.col
        /\ row' = p.row
        /\ UNCHANGED <<matrix, work_matrix, solution, accepted, calls, next_op,
                       ret, random_state, genlog, arg>>

\* Lines 82-84: entry of find_gods_number(matrix).
FindGodsNumber ==
    /\ pc = "play"
    /\ LET w == NewWorkMatrix(matrix)
       IN  /\ heap' = [heap EXCEPT ![w] = Matrix(heap[matrix].size,
                                                 heap[matrix].values,
                                                 heap[matrix].outputs)]
           /\ work_matrix' = w
    /\ operations' = <<>>
    /\ pc' = "normalize"
    /\ col' = 1
    /\ row' = 0
    /\ UNCHANGED <<matrix, printed, solution, accepted, calls, next_op, ret,
                   random_state, genlog, arg>>

\* Lines 91-94 on factor = 1/diag before rounding.
EstScale(inv) ==
    \E u2 \in TieSet(inv) : EstApply(ScaleOp(col, round2(inv, u2), FALSE))

\* Lines 90-94 on diag, the cleaned diagonal cell.
EstNormalizeWith(diag) ==
    IF IsFinite(diag) /\ ~NumEq(diag, PyInt(0)) /\ ~NumEq(diag, PyInt(1))
    THEN EstScale(PyTrueDiv(PyInt(1), diag))
    ELSE EstSkip

\* Lines 88-94: make the diagonal element of column col 1.
EstNormalize ==
    /\ pc = "normalize"
    /\ \E u1 \in TieSet(heap[work_matrix].values[col][col]) :
          EstNormalizeWith(_clean_number(heap[work_matrix].values[col][col], u1))
    /\ EstAdvance

\* round(val, 2) on a cleaned cell.
RoundVal(val, up) == IF val.t = "float" THEN round2(val, up) ELSE val

\* Lines 100-103 and 110-113 on val, the cleaned cell (row, col).
EstClearWith(val) ==
    IF IsFinite(val) /\ ~NumEq(val, PyInt(0))
    THEN \E u2 \in TieSet(val) :
            EstApply(EliminateOp(row, col, RoundVal(val, u2), FALSE))
    ELSE EstSkip

\* Lines 98-103 and 108-113: clear the cell (row, col) with row col.
EstClear ==
    \E u1 \in TieSet(heap[work_matrix].values[row][col]) :
       EstClearWith(_clean_number(heap[work_matrix].values[row][col], u1))

\* Lines 97-103: eliminate below the diagonal.
EstEliminate ==
    /\ pc = "eliminate"
    /\ EstClear
    /\ EstAdvance

\* Lines 106-113: back elimination.
EstBack ==
    /\ pc = "back"
    /\ EstClear
    /\ EstAdvance

\* Line 115: return len(operations), operations
EstReturn ==
    /\ pc = "returned"
    /\ ret' = [kind |-> "estimate", moveCount |-> Len(operations),
               operations |-> operations]
    /\ pc' = "caller"
    /\ UNCHANGED <<heap, matrix, work_matrix, printed, solution, accepted, calls,
                   col, row, operations, next_op, random_state, genlog, arg>>

\* The caller of main.py line 8 and app.py line 255, which estimates a
\* freshly generated matrix, replays the returned operations on a fresh copy.
ReplayStart ==
    /\ pc = "caller"
    /\ calls = 0
    /\ heap' = [heap EXCEPT !["m3"] = Matrix(heap[matrix].size,
                                             heap[matrix].values,
                                             heap[matrix].outputs)]
    /\ next_op' = 1
    /\ pc' = "replay"
    /\ UNCHANGED <<matrix, work_matrix, printed, solution, accepted, calls,
                   col, row, operations, ret, random_state, genlog, arg>>

ReplayStep ==
    /\ pc = "replay"
    /\ next_op <= Len(ret.operations)
    /\ UpdateFinite(heap["m3"], ret.operations[next_op])
    /\ \E up \in UpdateTieDirs(heap["m3"], ret.operations[next_op]) :
          UpdateEffect("m3", update(heap["m3"], ret.operations[next_op],
                                    up.row, up.out))
    /\ next_op' = next_op + 1
    /\ UNCHANGED <<matrix, work_matrix, solution, accepted, calls, pc,
                   col, row, operations, ret, random_state, genlog, arg>>

ReplayEnd ==
    /\ pc = "replay"
    /\ next_op > Len(ret.operations)
    /\ pc' = "replayed"
    /\ UNCHANGED <<heap, matrix, work_matrix, printed, solution, accepted, calls,
                   col, row, operations, next_op, ret, random_state, genlog, arg>>

Next ==
    \/ \E transformation \in Texts : UpdateCall(transformation)
    \/ FindGodsNumber
    \/ EstNormalize
    \/ EstEliminate
    \/ EstBack
    \/ EstReturn
    \/ ReplayStart
    \/ ReplayStep
    \/ ReplayEnd

Spec == InitGame /\ [][Next]_vars

(***************************************************************************)
(* Generation: calls of generate_matrix on the shared random module.       *)
(***************************************************************************)
Difficulties == {-1, 5, 101}
Compressibilities == {-1, 9, 10, 49, 50, 101}
Seeds == {7, 42}

\* main.py line 7: a call without seed.
NoSeed == -1

InitGen ==
    /\ random_state \in 0..(RngStates - 1)
    /\ genlog = <<>>
    /\ heap = [o \in ObjIds |-> NoMatrix]
    /\ solution = <<>>
    /\ matrix = "m1"
    /\ work_matrix = "None"
    /\ printed = ""
    /\ accepted = 0
    /\ calls = 0
    /\ pc = "generate"
    /\ col = 0
    /\ row = 0
    /\ operations = <<>>
    /\ next_op = 0
    /\ ret = NoRet
    /\ arg = NoRet

\* main.py line 7: generate_matrix(difficulty, compressibility), drawing from
\* the global random state.
GenerateCall(difficulty, compressibility) ==
    /\ pc = "generate"
    /\ Len(genlog) < MaxGen
    /\ LET g == generate_matrix(difficulty, compressibility, RngStream(random_state))
       IN  /\ heap' = [heap EXCEPT ![matrix] = g.matrix]
           /\ solution' = g.solution
           /\ random_state' = RngAt(random_state, g.consumed)
           /\ genlog' = Append(genlog,
                               [difficulty |-> difficulty,
                                compressibility |-> compressibility,
                                seed |-> NoSeed, raised |-> "",
                                values |-> g.matrix.values,
                                outputs |-> g.matrix.outputs])
    /\ printed' = ""
    /\ UNCHANGED <<matrix, work_matrix, accepted, calls, pc, col, row,
                   operations, next_op, ret, arg>>

\* app.py lines 216-230 (modes other than ranked): seed_rng is a private
\* generator seeded with seed_value; generate_matrix is called with a seed
\* keyword it does not accept, which raises TypeError.
BuildAndRenderGame(seed_value) ==
    /\ pc = "generate"
    /\ Len(genlog) < MaxGen
    /\ LET seed_rng == RngStream(seed_value % RngStates)
           difficulty == randint(seed_rng[1], 0, 100)
           compressibility == randint(seed_rng[2], 0, 100)
       IN  genlog' = Append(genlog,
                            [difficulty |-> difficulty,
                             compressibility |-> compressibility,
                             seed |-> seed_value, raised |-> "TypeError",
                             values |-> <<>>, outputs |-> <<>>])
    /\ printed' = "TypeError"
    /\ UNCHANGED <<heap, matrix, work_matrix, solution, accepted, calls, pc, col,
                   row, operations, next_op, ret, random_state, arg>>

NextGen ==
    \/ \E difficulty \in Difficulties, compressibility \in Compressibilities :
          GenerateCall(difficulty, compressibility)
    \/ \E seed_value \in Seeds : BuildAndRenderGame(seed_value)

SpecGen == InitGen /\ [][NextGen]_vars

(***************************************************************************)
(* The pure functions _clean_number and is_rref on arbitrary arguments.    *)
(***************************************************************************)
\* Largest magnitude, in thousandths, of the floats _clean_number is given.
MaxMilli == 2100

\* The numbers _clean_number is applied to: ints, and floats in thousandths.
CleanArgs ==
    {PyInt(n) : n \in -3..3} \cup {PyFloat(n, 1000) : n \in -MaxMilli..MaxMilli}

\* Cells of the matrices is_rref is applied to.
DiagCells == {PyInt(1), PyInt(0), PyFloat(1004, 1000), PyFloat(995, 1000)}
LowerCells == {PyInt(0), PyInt(1)}
UpperCells == {PyInt(0), PyFloat(4, 1000)}
OutputColumns == {[i \in Rows |-> PyInt(0)], [i \in Rows |-> PyInt(i + 4)]}

InitPure ==
    /\ \/ /\ arg \in {[kind |-> "number", v |-> x] : x \in CleanArgs}
          /\ heap = [o \in ObjIds |-> NoMatrix]
       \/ /\ arg = [kind |-> "matrix", v |-> PyInt(0)]
          /\ \E dg \in [Rows -> DiagCells], lo \in [Rows -> LowerCells],
                hi \in [Rows -> UpperCells], outs \in OutputColumns :
                LET vals == [i \in Rows |-> [j \in Rows |->
                                IF i = j THEN dg[i]
                                ELSE IF i > j THEN lo[i + j - 2]
                                ELSE hi[i + j - 2]]]
                IN  heap = [o \in ObjIds |-> IF o = "m1" THEN Matrix(size, vals, outs)
                                            ELSE NoMatrix]
    /\ matrix = "m1"
    /\ work_matrix = "None"
    /\ printed = ""
    /\ solution = <<>>
    /\ accepted = 0
    /\ calls = 0
    /\ pc = "pure"
    /\ col = 0
    /\ row = 0
    /\ operations = <<>>
    /\ next_op = 0
    /\ ret = NoRet
    /\ random_state = 0
    /\ genlog = <<>>

pureFrame == <<heap, matrix, work_matrix, printed, solution, accepted, calls, pc,
               col, row, operations, next_op, random_state, genlog>>

\* y = _clean_number(x)
CleanCall ==
    /\ pc = "pure"
    /\ arg.kind = "number"
    /\ ret = NoRet
    /\ \E up \in TieSet(arg.v) :
          ret' = [kind |-> "clean", v |-> _clean_number(arg.v, up)]
    /\ UNCHANGED arg
    /\ UNCHANGED pureFrame

\* z = _clean_number(y)
CleanAgain ==
    /\ pc = "pure"
    /\ ret.kind = "clean"
    /\ arg' = [kind |-> "cleaned", v |-> ret.v, x |-> arg.v]
    /\ \E up \in TieSet(ret.v) :
          ret' = [kind |-> "clean", v |-> _clean_number(ret.v, up)]
    /\ arg.kind = "number"
    /\ UNCHANGED pureFrame

\* matrix.is_rref()
IsRrefCall ==
    /\ pc = "pure"
    /\ arg.kind = "matrix"
    /\ ret = NoRet
    /\ \E up \in MatrixTieDirs(heap[matrix]) :
          /\ ret' = [kind |-> "is_rref", v |-> is_rref(heap[matrix], up)]
          /\ arg' = [kind |-> "matrix_ties", v |-> up]
    /\ UNCHANGED pureFrame

NextPure ==
    \/ CleanCall
    \/ CleanAgain
    \/ IsRrefCall

SpecPure == InitPure /\ [][NextPure]_vars

(***************************************************************************)
(* Properties                                                              *)
(***************************************************************************)
\* The step is a call of update by the player.
IsUpdateStep == calls' = calls + 1

\* The messages update prints when an evaluation fails.
EvalFailures == {"Error evaluating transformation",
                 "Transformation result is not a valid row",
                 "Error evaluating transformation for outputs"}

\* C1: atomicity of update.  Whenever the row-domain or the scalar-domain
\* evaluation of a transformation fails, values, outputs and moves_count of
\* the matrix are the same after the call as before it.
C1_Atomicity ==
    [][(IsUpdateStep /\ printed' \in EvalFailures)
           => heap'[matrix] = heap[matrix]]_vars

\* C2: move counting.  moves_count equals the number of update calls that
\* replaced both values[target] and outputs[target]: it grows by one with
\* each of them and by nothing with a rejected call.
C2_MoveCounting ==
    pc = "play" => heap[matrix].moves_count = accepted

\* An accepted and a rejected call have been made, the rejected one after
\* the row had been replaced.
C2_Witness ==
    /\ pc = "play"
    /\ calls = 2
    /\ accepted = 1
    /\ printed = "Error evaluating transformation for outputs"

\* sum(values[i][j] * s[j] for j in range(n)) in Python arithmetic.
RECURSIVE RowDot(_, _, _)
RowDot(cells, s, n) ==
    IF n = 0 THEN PyInt(0)
    ELSE LET acc == RowDot(cells, s, n - 1)
         IN  IF IsError(acc) THEN acc
             ELSE LET prod == PyArith("mul", cells[n], PyInt(s[n]))
                  IN  IF IsError(prod) THEN prod ELSE PyArith("add", acc, prod)

\* C3: solvability invariant.  After any sequence of successfully applied
\* transformations the hidden solution of the generated matrix still
\* satisfies every row: values[i] . solution equals outputs[i] under
\* canonical comparison.
C3_Solvability ==
    (pc = "play" /\ accepted = calls) =>
        \A i \in Rows :
            LET dot == RowDot(heap[matrix].values[i], solution, size)
                out == heap[matrix].outputs[i]
            IN  (IsFinite(dot) /\ IsFinite(out)) =>
                    \A u1 \in TieSet(dot), u2 \in TieSet(out) :
                        NumEq(_clean_number(dot, u1), _clean_number(out, u2))

\* Lines 23 and 24: the clamp, restated.
Clamp(x) == IF x < 0 THEN 0 ELSE IF x > 100 THEN 100 ELSE x

LastGen == genlog[Len(genlog)]

\* C4: generation-time solvability.  The matrix generate_matrix returns has
\* size 3, and its integer solution vector, every entry in 1..(10 + clamped
\* difficulty), satisfies outputs[i] = sum over j of values[i][j] * s[j].
C4_GeneratedSolvable ==
    (Len(genlog) > 0 /\ LastGen.raised = "") =>
        LET m == heap[matrix]
        IN  /\ m.size = 3
            /\ Len(m.values) = 3
            /\ Len(m.outputs) = 3
            /\ \A j \in Rows : solution[j] \in 1..(10 + Clamp(LastGen.difficulty))
            /\ \A i \in Rows :
                  /\ Len(m.values[i]) = 3
                  /\ \A j \in Rows : m.values[i][j].t = "int"
                  /\ m.outputs[i] = PyInt(m.values[i][1].n * solution[1]
                                          + m.values[i][2].n * solution[2]
                                          + m.values[i][3].n * solution[3])

\* A moderate-regime matrix with a forced zero, generated with a difficulty
\* that was clamped to 100 and a solution entry above 15.
C4_Witness ==
    /\ Len(genlog) > 0
    /\ LastGen.raised = ""
    /\ LastGen.difficulty = 101
    /\ LastGen.compressibility = 10
    /\ \E i, j \in Rows : heap[matrix].values[i][j].n = 0
    /\ \E j \in Rows : solution[j] > 15

\* C5: seed determinism.  Every generation call that is given a seed yields
\* a Matrix, and two such calls with identical arguments yield identical
\* values and outputs, whatever calls were made in between.
C5_SeedDeterminism ==
    \A a, b \in DOMAIN genlog :
        genlog[a].seed # NoSeed =>
            /\ genlog[a].raised = ""
            /\ (/\ genlog[b].seed = genlog[a].seed
                /\ genlog[b].difficulty = genlog[a].difficulty
                /\ genlog[b].compressibility = genlog[a].compressibility)
                   => (/\ genlog[b].values = genlog[a].values
                       /\ genlog[b].outputs = genlog[a].outputs)

\* C6: solved detection.  is_rref() is true exactly when every canonicalized
\* coefficient is 1 on the diagonal and 0 off it; the formula does not
\* mention outputs.
C6_SolvedDetection ==
    ret.kind = "is_rref" =>
        (ret.v <=> \A i, j \in Rows :
                      LET c == _clean_number(heap[matrix].values[i][j], arg.v[i][j])
                      IN  NumEq(c, PyInt(IF i = j THEN 1 ELSE 0)))

\* is_rref() returned True for a matrix with a stored 1.004 on the diagonal,
\* a stored 0.004 off it and a non-zero augmented column.
C6_Witness ==
    /\ ret.kind = "is_rref"
    /\ ret.v
    /\ \E i \in Rows : heap[matrix].values[i][i] = PyFloat(1004, 1000)
    /\ \E i, j \in Rows : heap[matrix].values[i][j] = PyFloat(4, 1000)
    /\ heap[matrix].outputs[1] # PyInt(0)

\* The control positions inside find_gods_number.
EstPcs == {"normalize", "eliminate", "back", "returned"}

\* C7: estimator purity.  No step of find_gods_number, from its entry to its
\* return, changes values, outputs or moves_count of the caller's matrix.
C7_EstimatorPurity ==
    [][(pc \in EstPcs \/ pc' \in EstPcs) => heap'[matrix] = heap[matrix]]_vars

\* find_gods_number has returned at least three operations, applied to a
\* working copy that now differs from the caller's matrix, which the player
\* had already transformed.
C7_Witness ==
    /\ pc = "caller"
    /\ ret.moveCount >= 3
    /\ heap[matrix].moves_count >= 1
    /\ heap[work_matrix].values # heap[matrix].values

\* C8: the estimate is an upper bound on the moves to solve.  Replaying the
\* returned operations on a fresh copy of the generated matrix makes
\* moveCount accepted moves and leaves a matrix for which is_rref() is true.
C8_EstimatorSolves ==
    pc = "replayed" =>
        /\ heap["m3"].moves_count = ret.moveCount
        /\ \A up \in MatrixTieDirs(heap["m3"]) : is_rref(heap["m3"], up)

\* C9: idempotent canonicalization.  _clean_number applied to its own result
\* returns it unchanged; the result has at most 2 fractional decimal digits
\* and is an int whenever its value is integral.
C9_IdempotentClean ==
    /\ ret.kind = "clean" =>
          /\ (100 * ret.v.n) % ret.v.d = 0
          /\ (ret.v.d = 1 => ret.v.t = "int")
    /\ arg.kind = "cleaned" => ret.v = arg.v

\* 1.504 was cleaned to 1.5 (a float, trailing zero stripped) and cleaning
\* that again returned 1.5.
C9_Witness ==
    /\ arg.kind = "cleaned"
    /\ arg.x = PyFloat(1504, 1000)
    /\ arg.v = PyFloat(3, 2)
    /\ ret.v = PyFloat(3, 2)

C11_FailureReporting ==
    [][(IsUpdateStep /\ printed' # "")
           => (/\ ret'.kind = "Failure"
               /\ ret'.errorKind \in {"ParseError", "RangeError",
                                      "DomainError", "TypeError"})]_vars

\* The determinant of a 3x3 block of Python ints.
Det3(v) ==
      v[1][1].n * (v[2][2].n * v[3][3].n - v[2][3].n * v[3][2].n)
    - v[1][2].n * (v[2][1].n * v[3][3].n - v[2][3].n * v[3][1].n)
    + v[1][3].n * (v[2][1].n * v[3][2].n - v[2][2].n * v[3][1].n)

\* C12: generated puzzles are never singular.  The coefficient block of
\* every matrix generate_matrix returns has a determinant other than 0.
C12_NeverSingular ==
    (Len(genlog) > 0 /\ LastGen.raised = "") => Det3(heap[matrix].values) # 0


\* ROWREF := "R" INTEGER, case-insensitive: the index it names, 0 when id is
\* no row reference.
RowRefIndex(id) ==
    IF Len(id) > 1 /\ Upper(id)[1] = "R" /\ IsDigits(Tail(id))
    THEN DigitsValue(Tail(id))
    ELSE 0

\* The expression matches the grammar expr (row references, numeric
\* literals, + - * /, unary minus, parentheses) with every row reference
\* index in 1..sz.
RECURSIVE InGrammar(_, _)
InGrammar(e, sz) ==
    CASE e.op = "name" -> RowRefIndex(e.id) \in 1..sz
      [] e.op = "num" -> TRUE
      [] e.op = "neg" -> InGrammar(e.a, sz)
      [] e.op \in {"add", "sub", "mul", "div"} ->
            InGrammar(e.l, sz) /\ InGrammar(e.r, sz)
      [] OTHER -> FALSE

\* The text is an assignment of the grammar: a single '=', a bare row
\* reference in range on the left, an expr on the right.
WellFormed(text, sz) ==
    /\ text.neq = 1
    /\ RowRefIndex(text.lhs) \in 1..sz
    /\ InGrammar(text.rhs, sz)

\* C13: syntactic rejection.  A call of update on a text that is not an
\* assignment of the grammar with every row index in 1..size commits
\* nothing: values, outputs and moves_count are unchanged.
C13_SyntacticRejection ==
    [][\A text \in Texts :
          (UpdateCall(text) /\ ~WellFormed(text, heap[matrix].size))
              => heap'[matrix] = heap[matrix]]_vars


\* A binary operator meets operands l and r it must reject: a division by a
\* zero scalar, a row times a row, a division by a row, a sum or difference
\* of a scalar and a row.
NodeFault(op, l, r) ==
    /\ ~IsError(l)
    /\ ~IsError(r)
    /\ \/ op = "div" /\ IsFinite(r) /\ r.n = 0
       \/ op = "mul" /\ IsRow(l) /\ IsRow(r)
       \/ op = "div" /\ IsRow(r)
       \/ op \in {"add", "sub"} /\ IsRow(l) # IsRow(r)

\* Some operator of the expression meets such operands in the row domain.
RECURSIVE Faulty(_, _)
Faulty(e, ns) ==
    CASE e.op \in {"name", "num", "invalid"} -> FALSE
      [] e.op = "neg" -> Faulty(e.a, ns)
      [] OTHER -> \/ Faulty(e.l, ns)
                  \/ Faulty(e.r, ns)
                  \/ NodeFault(e.op, Eval(e.l, ns), Eval(e.r, ns))

\* The expression of the text has a domain or type fault on matrix m: a
\* faulty operator, or a bare scalar as its value.
DomainOrTypeFault(text, m) ==
    \/ Faulty(UpperExpr(text.rhs), coeff_namespace(m))
    \/ IsNumber(Eval(UpperExpr(text.rhs), coeff_namespace(m)))

\* C14: domain and type rejection.  A call of update on a transformation
\* whose expression divides by a zero scalar, multiplies a row by a row,
\* divides by a row, adds or subtracts a scalar and a row, or reduces to a
\* bare scalar leaves values, outputs and moves_count unchanged.
C14_DomainTypeRejection ==
    [][\A text \in Texts :
          (UpdateCall(text) /\ DomainOrTypeFault(text, heap[matrix]))
              => heap'[matrix] = heap[matrix]]_vars

\* A call has been rejected by the row-domain evaluation on a matrix for
\* which a row-by-row product, well-formed and with a valid target, evaluates
\* to a number over the outputs alone.
C14_Witness ==
    /\ pc = "play"
    /\ calls = 1
    /\ accepted = 0
    /\ printed = "Error evaluating transformation"
    /\ \E text \in Texts :
          /\ WellFormed(text, heap[matrix].size)
          /\ text.rhs.op = "mul"
          /\ DomainOrTypeFault(text, heap[matrix])
          /\ IsFinite(Eval(UpperExpr(text.rhs), output_namespace(heap[matrix])))


\* The expression applies unary minus to a row-valued operand.
RECURSIVE NegatesRow(_, _)
NegatesRow(e, ns) ==
    CASE e.op \in {"name", "num", "invalid"} -> FALSE
      [] e.op = "neg" -> IsRow(Eval(e.a, ns)) \/ NegatesRow(e.a, ns)
      [] OTHER -> NegatesRow(e.l, ns) \/ NegatesRow(e.r, ns)

\* The text is R<t> = -R<k>.
IsRowNegation(text) == text.rhs.op = "neg" /\ text.rhs.a.op = "name"

\* C15: unary negation is supported.  A call of update on a well-formed
\* transformation whose expression applies unary minus to a row is accepted:
\* it increments moves_count by 1, and for R<t> = -R<k> it replaces
\* values[t] with the element-wise negated row k and outputs[t] with the
\* negated output k.
C15_UnaryNegation ==
    [][\A text \in Texts :
          (/\ UpdateCall(text)
           /\ WellFormed(text, heap[matrix].size)
           /\ NegatesRow(UpperExpr(text.rhs), coeff_namespace(heap[matrix])))
          => /\ heap'[matrix].moves_count = heap[matrix].moves_count + 1
             /\ IsRowNegation(text) =>
                   LET t == RowRefIndex(text.lhs)
                       k == RowRefIndex(text.rhs.a.id)
                   IN  /\ \A j \in Rows :
                             NumEq(heap'[matrix].values[t][j],
                                   PyNeg(heap[matrix].values[k][j]))
                       /\ NumEq(heap'[matrix].outputs[t],
                                PyNeg(heap[matrix].outputs[k]))]_vars


\* The target row of a text, as update computes it (line 199).
TargetRow(text) == ParseInt(Tail(Upper(text.lhs))).v

\* values[t] and outputs[t] of m1 are the canonicalized row-domain and
\* scalar-domain results of the text on m0; everything else is as in m0.
FrameOf(m0, m1, text, t) ==
    /\ m1.size = m0.size
    /\ \A i \in Rows \ {t} :
          /\ m1.values[i] = m0.values[i]
          /\ m1.outputs[i] = m0.outputs[i]
    /\ \E up \in UpdateTieDirs(m0, text) :
          /\ m1.values[t] =
                _clean_row(Eval(UpperExpr(text.rhs), coeff_namespace(m0)).data,
                           up.row)
          /\ m1.outputs[t] =
                _clean_number(Eval(UpperExpr(text.rhs), output_namespace(m0)),
                              up.out)

\* C16: frame of an accepted transformation.  When update accepts a
\* transformation with target row t, values[t] and outputs[t] become the
\* canonicalized results computed from the state before the call, and every
\* other row, every other output and size are unchanged; a row copied from
\* another (R1 = R2) is not changed by later changes to that row.
C16_AcceptedFrame ==
    [][\A text \in Texts :
          (UpdateCall(text) /\ accepted' = accepted + 1)
              => FrameOf(heap[matrix], heap'[matrix], text, TargetRow(text))]_vars

\* Two accepted calls: row 1 was replaced by a copy of row 2 (R1 = R2) and
\* then doubled, and row 2 still has its cells.
C16_Witness ==
    /\ pc = "play"
    /\ calls = 2
    /\ accepted = 2
    /\ heap[matrix].values[2] = <<PyInt(0), PyInt(1), PyInt(1)>>
    /\ heap[matrix].values[1] = <<PyInt(0), PyInt(2), PyInt(2)>>
    /\ heap[matrix].outputs[1].n = 2 * heap[matrix].outputs[2].n

=============================================================================
